---- MODULE Spec2Model ----
(***************************************************************************)
(* Account and catalog workflow of the marketplace application:            *)
(* the WTForms validation classes of app/forms.py and the route handlers   *)
(* of app/views.py, over the Users / Shops / Products / Comments store and *)
(* the uploads directory.                                                  *)
(***************************************************************************)
EXTENDS Integers, FiniteSets, Sequences, TLC

\* ---------------------------------------------------------------- bounds
MaxUsers == 2
MaxShops == 2
MaxProducts == 1
MaxComments == 1
MaxFiles == 1
NumSalts == 2
NumReqs == 2

\* ------------------------------------------------------ program constants
\* prices are counted in thousandths, so 0.01 is 10
PRICE_MIN == 10
EMAIL_MAX == 100
PASSWORD_MIN == 8
NAME_MIN == 3
NAME_MAX == 100
COMMENT_MIN == 10
COMMENT_MAX == 500
DESCRIPTION_MIN == 10
DESCRIPTION_MAX == 2000

\* --------------------------------------------------------- request inputs
LongEmail == "aaaaaaaaaaaaaaaaaaaaaaaaaaaaaaaaaaaaaaaa@bbbbbbbbbbbbbbbbbbbbbbbbbbbbbbbbbbbbbbbbbbbbbbbbbbbbbbbb.com"
Emails == {"", "bad", "a@x.com", "b@x.com", LongEmail}
Passwords == {"", "short", "password1", "password2"}
Names == {"", "ab", "Shop A", "Shop B"}
Prices == {-1000, 0, 5, 10, 11}
Texts == {"", "too short", "a long enough comment"}
Images == {"none", "photo.png", "anim.gif"}
Methods == {"GET", "POST"}
Titles == {"ab", "Red Shirt"}
Descriptions == {"too short", "a long enough description"}
Salts == 1..NumSalts

\* wtforms.validators.Email on the inputs above
EmailSyntaxOk(e) == e \in {"a@x.com", "b@x.com", LongEmail}

\* wtforms.validators.DataRequired: empty data stops the chain
DataRequired(s) == s # ""

\* flask_wtf.file.FileAllowed(['jpg', 'jpeg', 'png'])
FileAllowed(image) == image \in {"none", "photo.png"}

\* bcrypt: a salted digest and its verification
generate_password_hash(salt, pw) == <<salt, pw>>
check_password_hash(h, pw) == h = generate_password_hash(h[1], pw)

Anonymous == 0
NoShop == 0
NoFile == 0

\* ------------------------------------------------------------------ state
VARIABLES
    users,          \* User rows: [id, email, password_hash]
    shops,          \* Shop rows: [id, name, image, owner_id]
    products,       \* Product rows: [id, title, description, price, image, shop_id]
    comments,       \* Comment rows: [id, text, author_id, product_id]
    files,          \* stored names under static/uploads
    nextProductId,  \* next Product.id handed out by the store
    nextCommentId,  \* next Comment.id handed out by the store
    nextFileId,     \* next uuid4 token
    current_user,   \* flask_login current_user of the browser session (Anonymous if none)
    reqs            \* requests in flight, for the interleaved handlers

vars == <<users, shops, products, comments, files, nextProductId, nextCommentId,
          nextFileId, current_user, reqs>>

store == <<users, shops, products, comments, nextProductId, nextCommentId>>

Ids(rows) == {r.id : r \in rows}

\* Query.first(): the matching row with the lowest id
First(rows) == CHOOSE r \in rows : \A q \in rows : r.id <= q.id

\* Query.get_or_404
Get(rows, id) == CHOOSE r \in rows : r.id = id

\* ------------------------------------------------- store-level constraints
\* User.email and Shop.name are unique columns: a commit that would leave two
\* rows with the same value raises IntegrityError.
UniqueEmails(us) == \A u, v \in us : u.email = v.email => u.id = v.id

UniqueNames(ss) == \A s, t \in ss : s.name = t.name => s.id = t.id

\* a store whose columns carry no unique constraint
CommitOk_unconstrained(dbOk, us, ss) == dbOk

\* db.session.commit() of a unit of work leaving Users = us and Shops = ss
CommitOk(dbOk, us, ss) == dbOk /\ UniqueEmails(us) /\ UniqueNames(ss)

\* --------------------------------------------------------------- the forms
\* the inline validator left out of the form
validate_email_skipped(email, us) == FALSE

\* BaseForm.validate_email: TRUE when it raises ValidationError
validate_email(email, us) == \E u \in us : u.email = email

\* the name check without the exclusion of the form's own shop
validate_name_any(name, ss, self_shop) == \E s \in ss : s.name = name

\* ShopForm.validate_name: TRUE when it raises ValidationError;
\* self_shop is the id of the form's shop attribute, NoShop when it has none
validate_name(name, ss, self_shop) ==
    LET found == {s \in ss : s.name = name}
    IN  /\ found # {}
        /\ (self_shop = NoShop \/ First(found).id # self_shop)

\* the email field of RegisterForm and EditProfileForm, with the inline validator
EmailFieldInvalid(email, us) ==
    \/ ~DataRequired(email)
    \/ ~EmailSyntaxOk(email)
    \/ Len(email) > EMAIL_MAX
    \/ validate_email(email, us)

\* a new-password field and its confirmation
NewPasswordErrors(password, confirm) ==
    (IF ~DataRequired(password) \/ Len(password) < PASSWORD_MIN
        THEN {"password"} ELSE {})
    \cup
    (IF ~DataRequired(confirm) \/ confirm # password
        THEN {"confirm_password"} ELSE {})

LoginFormErrors(email, password) ==
    (IF ~DataRequired(email) \/ ~EmailSyntaxOk(email) THEN {"email"} ELSE {})
    \cup
    (IF ~DataRequired(password) THEN {"password"} ELSE {})

RegisterFormErrors(email, password, confirm, us) ==
    (IF EmailFieldInvalid(email, us) THEN {"email"} ELSE {})
    \cup NewPasswordErrors(password, confirm)

ShopFormErrors(name, image, ss, self_shop) ==
    (IF \/ ~DataRequired(name)
        \/ Len(name) < NAME_MIN
        \/ Len(name) > NAME_MAX
        \/ validate_name(name, ss, self_shop)
        THEN {"name"} ELSE {})
    \cup
    (IF ~FileAllowed(image) THEN {"image"} ELSE {})

\* the price field without its range validator
NumberRange_none(price) == TRUE

\* NumberRange(min=0.01): raises when data < min
NumberRange(price) == price >= PRICE_MIN

\* the price field: DataRequired rejects a zero, NumberRange what is below min
PriceFieldInvalid(price) == price = 0 \/ ~NumberRange(price)

ProductFormErrors(title, description, price, image) ==
    (IF ~DataRequired(title) \/ Len(title) < NAME_MIN \/ Len(title) > NAME_MAX
        THEN {"title"} ELSE {})
    \cup
    (IF \/ ~DataRequired(description)
        \/ Len(description) < DESCRIPTION_MIN
        \/ Len(description) > DESCRIPTION_MAX
        THEN {"description"} ELSE {})
    \cup
    (IF PriceFieldInvalid(price) THEN {"price"} ELSE {})
    \cup
    (IF ~FileAllowed(image) THEN {"image"} ELSE {})

CommentFormErrors(text) ==
    IF ~DataRequired(text) \/ Len(text) < COMMENT_MIN \/ Len(text) > COMMENT_MAX
    THEN {"text"} ELSE {}

EditProfileFormErrors(email, us) ==
    IF EmailFieldInvalid(email, us) THEN {"email"} ELSE {}

ChangePasswordFormErrors(old, new, confirm) ==
    (IF ~DataRequired(old) THEN {"old_password"} ELSE {})
    \cup NewPasswordErrors(new, confirm)

\* ------------------------------------------------------------ the requests
\* what the client sees of a handled request
Response(op, outcome) == [op |-> op, outcome |-> outcome, errors |-> {}]

Invalid(op, errors) == [op |-> op, outcome |-> "validation_error", errors |-> errors]

Idle == [pc |-> "idle", op |-> "none", caller |-> Anonymous, value |-> "",
         hash |-> <<0, "">>, image |-> "none", file |-> NoFile, outcome |-> "none"]

Init ==
    /\ users = {}
    /\ shops = {}
    /\ products = {}
    /\ comments = {}
    /\ files = {}
    /\ nextProductId = 1
    /\ nextCommentId = 1
    /\ nextFileId = 1
    /\ current_user = Anonymous
    /\ reqs = [r \in 1..NumReqs |-> Idle]

\* ------------------------------------------------------- account handlers
\* a login that tells an unknown email from a wrong password
login_result_telling(method, email, password) ==
    LET errors == LoginFormErrors(email, password)
        found == {u \in users : u.email = email}
    IN  IF current_user # Anonymous
        THEN [response |-> Response("login", "redirect_index"),
              current_user |-> current_user]
        ELSE IF method # "POST"
        THEN [response |-> Response("login", "render"), current_user |-> current_user]
        ELSE IF errors # {}
        THEN [response |-> Invalid("login", errors), current_user |-> current_user]
        ELSE IF found = {}
        THEN [response |-> Response("login", "unknown_email"),
              current_user |-> current_user]
        ELSE IF check_password_hash(First(found).password_hash, password)
        THEN [response |-> Response("login", "logged_in"),
              current_user |-> First(found).id]
        ELSE [response |-> Response("login", "invalid_credentials"),
              current_user |-> current_user]

\* login(): the response and the session it leaves
login_result(method, email, password) ==
    LET errors == LoginFormErrors(email, password)
        found == {u \in users : u.email = email}
    IN  IF current_user # Anonymous
        THEN [response |-> Response("login", "redirect_index"), current_user |-> current_user]
        ELSE IF method # "POST"
        THEN [response |-> Response("login", "render"), current_user |-> current_user]
        ELSE IF errors # {}
        THEN [response |-> Invalid("login", errors), current_user |-> current_user]
        ELSE IF found # {} /\ check_password_hash(First(found).password_hash, password)
        THEN [response |-> Response("login", "logged_in"), current_user |-> First(found).id]
        ELSE [response |-> Response("login", "invalid_credentials"),
              current_user |-> current_user]

login(method, email, password) ==
    LET r == login_result(method, email, password)
    IN  /\ current_user' = r.current_user
        /\ UNCHANGED <<store, files, nextFileId, reqs>>

\* logout(): behind login_required
logout_result ==
    IF current_user = Anonymous
    THEN [response |-> Response("logout", "unauthorized"), current_user |-> Anonymous]
    ELSE [response |-> Response("logout", "redirect_index"), current_user |-> Anonymous]

logout ==
    /\ current_user' = logout_result.current_user
    /\ UNCHANGED <<store, files, nextFileId, reqs>>

\* register(): the response and the Users it leaves
register_result(method, email, password, confirm, salt, dbOk) ==
    LET errors == RegisterFormErrors(email, password, confirm, users)
        new_user == [id |-> Cardinality(users) + 1, email |-> email,
                     password_hash |-> generate_password_hash(salt, password)]
    IN  IF current_user # Anonymous
        THEN [response |-> Response("register", "redirect_index"), users |-> users]
        ELSE IF method # "POST"
        THEN [response |-> Response("register", "render"), users |-> users]
        ELSE IF errors # {}
        THEN [response |-> Invalid("register", errors), users |-> users]
        ELSE IF \E u \in users : u.email = email
        THEN [response |-> Response("register", "already_registered"), users |-> users]
        ELSE IF CommitOk(dbOk, users \cup {new_user}, shops)
        THEN [response |-> Response("register", "registered"),
              users |-> users \cup {new_user}]
        ELSE [response |-> Response("register", "persistence_failure"), users |-> users]

register(method, email, password, confirm, salt, dbOk) ==
    LET r == register_result(method, email, password, confirm, salt, dbOk)
    IN  /\ Cardinality(r.users) <= MaxUsers
        /\ users' = r.users
        /\ UNCHANGED <<shops, products, comments, nextProductId, nextCommentId,
                       files, nextFileId, current_user, reqs>>

\* edit_account(): the response and the Users it leaves
edit_account_result(method, email, dbOk) ==
    LET errors == EditProfileFormErrors(email, users)
        updated == {IF u.id = current_user THEN [u EXCEPT !.email = email] ELSE u :
                    u \in users}
    IN  IF current_user = Anonymous
        THEN [response |-> Response("edit_account", "unauthorized"), users |-> users]
        ELSE IF method # "POST"
        THEN [response |-> Response("edit_account", "render"), users |-> users]
        ELSE IF errors # {}
        THEN [response |-> Invalid("edit_account", errors), users |-> users]
        ELSE IF CommitOk(dbOk, updated, shops)
        THEN [response |-> Response("edit_account", "updated"), users |-> updated]
        ELSE [response |-> Response("edit_account", "server_error"), users |-> users]

edit_account(method, email, dbOk) ==
    LET r == edit_account_result(method, email, dbOk)
    IN  /\ users' = r.users
        /\ UNCHANGED <<shops, products, comments, nextProductId, nextCommentId,
                       files, nextFileId, current_user, reqs>>

\* change_password(): the response and the Users it leaves
change_password_result(method, old, new, confirm, salt, dbOk) ==
    LET errors == ChangePasswordFormErrors(old, new, confirm)
        me == Get(users, current_user)
        updated == {IF u.id = current_user
                    THEN [u EXCEPT !.password_hash = generate_password_hash(salt, new)]
                    ELSE u : u \in users}
    IN  IF current_user = Anonymous
        THEN [response |-> Response("change_password", "unauthorized"), users |-> users]
        ELSE IF method # "POST"
        THEN [response |-> Response("change_password", "render"), users |-> users]
        ELSE IF errors # {}
        THEN [response |-> Invalid("change_password", errors), users |-> users]
        ELSE IF ~check_password_hash(me.password_hash, old)
        THEN [response |-> Response("change_password", "invalid_current_password"),
              users |-> users]
        ELSE IF CommitOk(dbOk, updated, shops)
        THEN [response |-> Response("change_password", "password_changed"),
              users |-> updated]
        ELSE [response |-> Response("change_password", "server_error"), users |-> users]

change_password(method, old, new, confirm, salt, dbOk) ==
    LET r == change_password_result(method, old, new, confirm, salt, dbOk)
    IN  /\ users' = r.users
        /\ UNCHANGED <<shops, products, comments, nextProductId, nextCommentId,
                       files, nextFileId, current_user, reqs>>

\* ------------------------------------------------------- catalog handlers
\* an ownership check that lets every logged-in user through
NotOwner_never(owner_id) == FALSE

\* shop.owner != current_user
NotOwner(owner_id) == owner_id # current_user

\* a delete that leaves the product's comments in place
CommentsAfterDelete_kept(product_id) == comments

\* Comment.query.filter_by(product_id=product.id).delete()
CommentsAfterDelete(product_id) == {c \in comments : c.product_id # product_id}

\* image.save under a fresh uuid4 name: the stored name, NoFile without upload
SavedName(image) == IF image # "none" THEN nextFileId ELSE NoFile

FilesAfterSave(image) == IF image # "none" THEN files \cup {nextFileId} ELSE files

\* create_shop(): the response, the Shops and the uploads it leaves
create_shop_result(method, name, image, dbOk) ==
    LET errors == ShopFormErrors(name, image, shops, NoShop)
        shop == [id |-> Cardinality(shops) + 1, name |-> name,
                 image |-> SavedName(image), owner_id |-> current_user]
    IN  IF current_user = Anonymous
        THEN [response |-> Response("create_shop", "unauthorized"),
              shops |-> shops, files |-> files]
        ELSE IF method # "POST"
        THEN [response |-> Response("create_shop", "render"),
              shops |-> shops, files |-> files]
        ELSE IF errors # {}
        THEN [response |-> Invalid("create_shop", errors),
              shops |-> shops, files |-> files]
        ELSE IF CommitOk(dbOk, users, shops \cup {shop})
        THEN [response |-> Response("create_shop", "created"),
              shops |-> shops \cup {shop}, files |-> FilesAfterSave(image)]
        ELSE [response |-> Response("create_shop", "server_error"),
              shops |-> shops, files |-> FilesAfterSave(image)]

create_shop(method, name, image, dbOk) ==
    LET r == create_shop_result(method, name, image, dbOk)
    IN  /\ Cardinality(r.shops) <= MaxShops
        /\ r.files # files => nextFileId <= MaxFiles
        /\ shops' = r.shops
        /\ files' = r.files
        /\ nextFileId' = IF r.files # files THEN nextFileId + 1 ELSE nextFileId
        /\ UNCHANGED <<users, products, comments, nextProductId, nextCommentId,
                       current_user, reqs>>

\* add_product(): the response, the Products and the uploads it leaves
add_product_result(method, shop_id, title, description, price, image, dbOk) ==
    LET shop == Get(shops, shop_id)
        errors == ProductFormErrors(title, description, price, image)
        new_product == [id |-> nextProductId, title |-> title,
                        description |-> description, price |-> price,
                        image |-> SavedName(image), shop_id |-> shop.id]
    IN  IF current_user = Anonymous
        THEN [response |-> Response("add_product", "unauthorized"),
              products |-> products, files |-> files]
        ELSE IF shop_id \notin Ids(shops)
        THEN [response |-> Response("add_product", "not_found"),
              products |-> products, files |-> files]
        ELSE IF NotOwner(shop.owner_id)
        THEN [response |-> Response("add_product", "forbidden"),
              products |-> products, files |-> files]
        ELSE IF method # "POST"
        THEN [response |-> Response("add_product", "render"),
              products |-> products, files |-> files]
        ELSE IF errors # {}
        THEN [response |-> Invalid("add_product", errors),
              products |-> products, files |-> files]
        ELSE IF CommitOk(dbOk, users, shops)
        THEN [response |-> Response("add_product", "added"),
              products |-> products \cup {new_product},
              files |-> FilesAfterSave(image)]
        ELSE [response |-> Response("add_product", "persistence_failure"),
              products |-> products, files |-> FilesAfterSave(image)]

add_product(method, shop_id, title, description, price, image, dbOk) ==
    LET r == add_product_result(method, shop_id, title, description, price, image, dbOk)
    IN  /\ r.products # products => nextProductId <= MaxProducts
        /\ r.files # files => nextFileId <= MaxFiles
        /\ products' = r.products
        /\ nextProductId' = IF r.products # products THEN nextProductId + 1
                            ELSE nextProductId
        /\ files' = r.files
        /\ nextFileId' = IF r.files # files THEN nextFileId + 1 ELSE nextFileId
        /\ UNCHANGED <<users, shops, comments, nextCommentId, current_user, reqs>>

\* a comment handler that asks for the login before it looks the product up
product_result_login_first(method, product_id, text, dbOk) ==
    LET errors == CommentFormErrors(text)
        comment == [id |-> nextCommentId, text |-> text, author_id |-> current_user,
                    product_id |-> product_id]
    IN  IF method = "POST" /\ current_user = Anonymous
        THEN [response |-> Response("product", "redirect_login"), comments |-> comments]
        ELSE IF product_id \notin Ids(products)
        THEN [response |-> Response("product", "not_found"), comments |-> comments]
        ELSE IF method # "POST"
        THEN [response |-> Response("product", "render"), comments |-> comments]
        ELSE IF errors # {}
        THEN [response |-> Invalid("product", errors), comments |-> comments]
        ELSE IF CommitOk(dbOk, users, shops)
        THEN [response |-> Response("product", "commented"),
              comments |-> comments \cup {comment}]
        ELSE [response |-> Response("product", "server_error"), comments |-> comments]

\* product(): the product page and the comment form posted to it
product_result(method, product_id, text, dbOk) ==
    LET errors == CommentFormErrors(text)
        comment == [id |-> nextCommentId, text |-> text, author_id |-> current_user,
                    product_id |-> product_id]
    IN  IF product_id \notin Ids(products)
        THEN [response |-> Response("product", "not_found"), comments |-> comments]
        ELSE IF method # "POST"
        THEN [response |-> Response("product", "render"), comments |-> comments]
        ELSE IF errors # {}
        THEN [response |-> Invalid("product", errors), comments |-> comments]
        ELSE IF current_user = Anonymous
        THEN [response |-> Response("product", "redirect_login"), comments |-> comments]
        ELSE IF CommitOk(dbOk, users, shops)
        THEN [response |-> Response("product", "commented"),
              comments |-> comments \cup {comment}]
        ELSE [response |-> Response("product", "server_error"), comments |-> comments]

product(method, product_id, text, dbOk) ==
    LET r == product_result(method, product_id, text, dbOk)
    IN  /\ r.comments # comments => nextCommentId <= MaxComments
        /\ comments' = r.comments
        /\ nextCommentId' = IF r.comments # comments THEN nextCommentId + 1
                            ELSE nextCommentId
        /\ UNCHANGED <<users, shops, products, nextProductId, files, nextFileId,
                       current_user, reqs>>

\* delete_product(): the response, and the Products, Comments and uploads it leaves
delete_product_result(product_id, rmOk, dbOk) ==
    LET prod == Get(products, product_id)
        removed == IF prod.image # NoFile /\ prod.image \in files /\ rmOk
                   THEN {prod.image} ELSE {}
    IN  IF current_user = Anonymous
        THEN [response |-> Response("delete_product", "unauthorized"),
              products |-> products, comments |-> comments, files |-> files]
        ELSE IF product_id \notin Ids(products)
        THEN [response |-> Response("delete_product", "not_found"),
              products |-> products, comments |-> comments, files |-> files]
        ELSE IF NotOwner(Get(shops, prod.shop_id).owner_id)
        THEN [response |-> Response("delete_product", "forbidden"),
              products |-> products, comments |-> comments, files |-> files]
        ELSE IF CommitOk(dbOk, users, shops)
        THEN [response |-> Response("delete_product", "deleted"),
              products |-> products \ {prod},
              comments |-> CommentsAfterDelete(prod.id),
              files |-> files \ removed]
        ELSE [response |-> Response("delete_product", "server_error"),
              products |-> products, comments |-> comments,
              files |-> files \ removed]

delete_product(product_id, rmOk, dbOk) ==
    LET r == delete_product_result(product_id, rmOk, dbOk)
    IN  /\ products' = r.products
        /\ comments' = r.comments
        /\ files' = r.files
        /\ UNCHANGED <<users, shops, nextProductId, nextCommentId, nextFileId,
                       current_user, reqs>>

\* ------------------------------------------------------ the whole program
\* credentials submitted while the catalog is exercised
SomeEmails == {"a@x.com", "b@x.com"}
SomePasswords == {"password1"}
ShopIds == 1..(MaxShops + 1)
ProductIds == 1..(MaxProducts + 1)

\* the shop forms submitted: well-formed ones, and one per failing validator
ShopForms ==
    {[name |-> "Shop A", image |-> "none"], [name |-> "Shop B", image |-> "photo.png"],
     [name |-> "", image |-> "none"], [name |-> "ab", image |-> "none"],
     [name |-> "Shop A", image |-> "anim.gif"]}

\* the product forms submitted: well-formed ones, and one per failing validator
ProductForms ==
    {[title |-> "Red Shirt", description |-> "a long enough description",
      price |-> p, image |-> IF p = PRICE_MIN THEN "none" ELSE "photo.png"] :
        p \in Prices}
    \cup {[title |-> "ab", description |-> "a long enough description",
           price |-> 11, image |-> "none"],
          [title |-> "Red Shirt", description |-> "too short",
           price |-> 11, image |-> "none"],
          [title |-> "Red Shirt", description |-> "a long enough description",
           price |-> 11, image |-> "anim.gif"]}

\* a GET carries no form data; a POST carries the submitted fields
AccountRequests(emails, passwords, salts) ==
    \/ login("GET", "", "")
    \/ \E e \in emails, p \in passwords : login("POST", e, p)
    \/ logout
    \/ \E s \in salts : register("GET", "", "", "", s, TRUE)
    \/ \E e \in emails, p \in passwords, c \in passwords, s \in salts, ok \in BOOLEAN :
          register("POST", e, p, c, s, ok)
    \/ edit_account("GET", "", TRUE)
    \/ \E e \in emails, ok \in BOOLEAN : edit_account("POST", e, ok)
    \/ \E s \in salts : change_password("GET", "", "", "", s, TRUE)
    \/ \E o \in passwords, n \in passwords, c \in passwords, s \in salts,
          ok \in BOOLEAN : change_password("POST", o, n, c, s, ok)

CatalogRequests ==
    \/ create_shop("GET", "", "none", TRUE)
    \/ \E f \in ShopForms, ok \in BOOLEAN : create_shop("POST", f.name, f.image, ok)
    \/ \E id \in ShopIds : add_product("GET", id, "", "", 0, "none", TRUE)
    \/ \E id \in ShopIds, f \in ProductForms, ok \in BOOLEAN :
          add_product("POST", id, f.title, f.description, f.price, f.image, ok)
    \/ \E id \in ProductIds : product("GET", id, "", TRUE)
    \/ \E id \in ProductIds, t \in Texts, ok \in BOOLEAN : product("POST", id, t, ok)
    \/ \E id \in ProductIds, rm \in BOOLEAN, ok \in BOOLEAN :
          delete_product(id, rm, ok)

Next == AccountRequests(SomeEmails, SomePasswords, {1}) \/ CatalogRequests

Spec == Init /\ [][Next]_vars

NextAccount == AccountRequests(Emails, Passwords, Salts)

SpecAccount == Init /\ [][NextAccount]_vars

\* ------------------------------------------------- interleaved requests
\* register, edit_account and create_shop handled by concurrent workers: the
\* form's uniqueness read, the session change and the commit are separate
\* steps, and each request has its own client session (caller).
Requests == 1..NumReqs

Free(r) == reqs[r].pc \in {"idle", "done"}

Done(outcome) == [Idle EXCEPT !.pc = "done", !.outcome = outcome]

\* the well-formed shop forms raced
RaceShopForms == {f \in ShopForms : ShopFormErrors(f.name, f.image, {}, NoShop) = {}}

\* RegisterForm.validate_on_submit() of an anonymous client
register_validate(r, email, password, salt) ==
    /\ Free(r)
    /\ reqs' = [reqs EXCEPT ![r] =
          IF RegisterFormErrors(email, password, password, users) # {}
          THEN Done("validation_error")
          ELSE [Idle EXCEPT !.pc = "validated", !.op = "register", !.value = email,
                            !.hash = generate_password_hash(salt, password)]]
    /\ UNCHANGED <<store, files, nextFileId, current_user>>

\* the second existence read, then db.session.add(new_user)
register_add(r) ==
    /\ reqs[r].pc = "validated" /\ reqs[r].op = "register"
    /\ reqs' = [reqs EXCEPT ![r] =
          IF \E u \in users : u.email = reqs[r].value
          THEN Done("already_registered")
          ELSE [reqs[r] EXCEPT !.pc = "added"]]
    /\ UNCHANGED <<store, files, nextFileId, current_user>>

\* db.session.commit() of the new User; rollback when it raises
register_commit_result(r, dbOk) ==
    LET new_user == [id |-> Cardinality(users) + 1, email |-> reqs[r].value,
                     password_hash |-> reqs[r].hash]
    IN  IF CommitOk(dbOk, users \cup {new_user}, shops)
        THEN [outcome |-> "registered", users |-> users \cup {new_user}]
        ELSE [outcome |-> "persistence_failure", users |-> users]

register_commit(r, dbOk) ==
    LET res == register_commit_result(r, dbOk)
    IN  /\ reqs[r].pc = "added" /\ reqs[r].op = "register"
        /\ Cardinality(res.users) <= MaxUsers
        /\ users' = res.users
        /\ reqs' = [reqs EXCEPT ![r] = Done(res.outcome)]
        /\ UNCHANGED <<shops, products, comments, nextProductId, nextCommentId,
                       files, nextFileId, current_user>>

\* EditProfileForm.validate_on_submit() of a logged-in client
edit_account_validate(r, caller, email) ==
    /\ Free(r)
    /\ caller \in Ids(users)
    /\ reqs' = [reqs EXCEPT ![r] =
          IF EditProfileFormErrors(email, users) # {}
          THEN Done("validation_error")
          ELSE [Idle EXCEPT !.pc = "validated", !.op = "edit_account",
                            !.caller = caller, !.value = email]]
    /\ UNCHANGED <<store, files, nextFileId, current_user>>

\* current_user.email = form.email.data
edit_account_set(r) ==
    /\ reqs[r].pc = "validated" /\ reqs[r].op = "edit_account"
    /\ reqs' = [reqs EXCEPT ![r].pc = "added"]
    /\ UNCHANGED <<store, files, nextFileId, current_user>>

\* db.session.commit() of the changed User; the exception is not caught
edit_account_commit_result(r, dbOk) ==
    LET updated == {IF u.id = reqs[r].caller THEN [u EXCEPT !.email = reqs[r].value]
                    ELSE u : u \in users}
    IN  IF CommitOk(dbOk, updated, shops)
        THEN [outcome |-> "updated", users |-> updated]
        ELSE [outcome |-> "server_error", users |-> users]

edit_account_commit(r, dbOk) ==
    LET res == edit_account_commit_result(r, dbOk)
    IN  /\ reqs[r].pc = "added" /\ reqs[r].op = "edit_account"
        /\ users' = res.users
        /\ reqs' = [reqs EXCEPT ![r] = Done(res.outcome)]
        /\ UNCHANGED <<shops, products, comments, nextProductId, nextCommentId,
                       files, nextFileId, current_user>>

\* ShopForm.validate_on_submit() of a logged-in client
create_shop_validate(r, caller, name, image) ==
    /\ Free(r)
    /\ caller \in Ids(users)
    /\ reqs' = [reqs EXCEPT ![r] =
          IF ShopFormErrors(name, image, shops, NoShop) # {}
          THEN Done("validation_error")
          ELSE [Idle EXCEPT !.pc = "validated", !.op = "create_shop",
                            !.caller = caller, !.value = name,
                            !.image = image]]
    /\ UNCHANGED <<store, files, nextFileId, current_user>>

\* image.save() under a fresh name, then db.session.add(shop)
create_shop_add(r) ==
    LET upload == reqs[r].image # "none"
    IN  /\ reqs[r].pc = "validated" /\ reqs[r].op = "create_shop"
        /\ upload => nextFileId <= MaxFiles
        /\ files' = IF upload THEN files \cup {nextFileId} ELSE files
        /\ nextFileId' = IF upload THEN nextFileId + 1 ELSE nextFileId
        /\ reqs' = [reqs EXCEPT ![r].pc = "added",
                                ![r].file = IF upload THEN nextFileId ELSE NoFile]
        /\ UNCHANGED <<store, current_user>>

\* db.session.commit() of the new Shop; the exception is not caught
create_shop_commit_result(r, dbOk) ==
    LET shop == [id |-> Cardinality(shops) + 1, name |-> reqs[r].value,
                 image |-> reqs[r].file, owner_id |-> reqs[r].caller]
    IN  IF CommitOk(dbOk, users, shops \cup {shop})
        THEN [outcome |-> "created", shops |-> shops \cup {shop}]
        ELSE [outcome |-> "server_error", shops |-> shops]

create_shop_commit(r, dbOk) ==
    LET res == create_shop_commit_result(r, dbOk)
    IN  /\ reqs[r].pc = "added" /\ reqs[r].op = "create_shop"
        /\ Cardinality(res.shops) <= MaxShops
        /\ shops' = res.shops
        /\ reqs' = [reqs EXCEPT ![r] = Done(res.outcome)]
        /\ UNCHANGED <<users, products, comments, nextProductId, nextCommentId,
                       files, nextFileId, current_user>>

NextRace ==
    \E r \in Requests :
        \/ \E e \in SomeEmails, p \in SomePasswords : register_validate(r, e, p, 1)
        \/ register_add(r)
        \/ \E ok \in BOOLEAN : register_commit(r, ok)
        \/ \E c \in 1..MaxUsers, e \in SomeEmails : edit_account_validate(r, c, e)
        \/ edit_account_set(r)
        \/ \E ok \in BOOLEAN : edit_account_commit(r, ok)
        \/ \E c \in 1..MaxUsers, f \in RaceShopForms :
              create_shop_validate(r, c, f.name, f.image)
        \/ create_shop_add(r)
        \/ \E ok \in BOOLEAN : create_shop_commit(r, ok)

SpecRace == Init /\ [][NextRace]_vars

\* ================================================================ claims
Held(email) == \E u \in users : u.email = email

\* a login form that passes LoginForm's field validators
WellFormedEmail(email) == DataRequired(email) /\ EmailSyntaxOk(email)

\* C1 as stated: every registration attempt with an email some User holds
\* ends in a validation error on the email field and leaves Users unchanged.
C1_UsedEmailAlwaysValidationError ==
    \A e \in Emails, p \in Passwords, c \in Passwords, s \in Salts, ok \in BOOLEAN :
        Held(e) =>
            LET r == register_result("POST", e, p, c, s, ok)
            IN  /\ r.response.outcome = "validation_error"
                /\ "email" \in r.response.errors
                /\ r.users = users

\* C1 amended: a registration attempt with an email some User holds leaves
\* Users unchanged; from a caller who is not logged in it ends in a validation
\* error on the email field, from a logged-in caller in the redirect to the
\* index page with no validation at all.
C1_UsedEmailRejected ==
    \A e \in Emails, p \in Passwords, c \in Passwords, s \in Salts, ok \in BOOLEAN :
        Held(e) =>
            LET r == register_result("POST", e, p, c, s, ok)
            IN  /\ r.users = users
                /\ IF current_user = Anonymous
                   THEN /\ r.response.outcome = "validation_error"
                        /\ "email" \in r.response.errors
                   ELSE r.response = Response("register", "redirect_index")

\* a User exists and an anonymous visitor's registration with that email,
\* otherwise well-formed, is answered with the error on the email field
C1_Witness ==
    /\ current_user = Anonymous
    /\ \E u \in users :
          register_result("POST", u.email, "password1", "password1", 1, TRUE)
              = [response |-> Invalid("register", {"email"}), users |-> users]

\* C2: for a caller who is not logged in, login with a User's email and the
\* password its hash was made from logs that User in; with a User's email and
\* any other password the response and the session are exactly those of the
\* same login with a well-formed email no User holds, and nobody is logged in.
C2_LoginIndistinguishable ==
    current_user = Anonymous =>
        \A u \in users, p \in Passwords :
            LET r == login_result("POST", u.email, p)
            IN  IF u.password_hash = generate_password_hash(u.password_hash[1], p)
                THEN r = [response |-> Response("login", "logged_in"),
                          current_user |-> u.id]
                ELSE /\ r.current_user = Anonymous
                     /\ r.response.outcome # "logged_in"
                     /\ \A e \in Emails :
                           (WellFormedEmail(e) /\ ~Held(e)) =>
                               login_result("POST", e, p) = r

\* two Users exist and one of them has logged in with a password the other
\* login attempts do not match
C2_Witness ==
    /\ Cardinality(users) = 2
    /\ \E u \in users :
          /\ current_user = u.id
          /\ check_password_hash(u.password_hash, "password2")
          /\ ~check_password_hash(u.password_hash, "password1")

\* C10 as stated: an edit profile request of a logged-in caller with a
\* well-formed email of at most 100 characters that no other User holds (the
\* caller's own current email included) succeeds and leaves the caller's
\* email equal to the submitted value.
C10_EditProfileAcceptsOwnEmail ==
    current_user # Anonymous =>
        \A e \in Emails :
            ( /\ WellFormedEmail(e)
              /\ Len(e) <= EMAIL_MAX
              /\ ~\E u \in users : u.id # current_user /\ u.email = e ) =>
                LET r == edit_account_result("POST", e, TRUE)
                IN  /\ r.response = Response("edit_account", "updated")
                    /\ \A u \in r.users : u.id = current_user => u.email = e

OwnerOf(shop_id) == Get(shops, shop_id).owner_id

\* C3: for a logged-in caller, add product on a shop id that does not exist
\* and delete product on a product id that does not exist answer not found;
\* on a shop or product of another User they answer forbidden and leave
\* Products, Comments and the stored files as they are; and whatever either
\* handler changes, it changes for the owner of the shop concerned. No step of
\* the program adds or removes a Product of a shop the caller does not own,
\* and none changes a Shop that exists.
C3_OnlyOwnerMutates ==
    /\ [](current_user # Anonymous =>
          /\ \A id \in ShopIds, t \in Titles, d \in Descriptions, p \in Prices,
                i \in Images, ok \in BOOLEAN :
                LET r == add_product_result("POST", id, t, d, p, i, ok)
                    same == r.products = products /\ r.files = files
                IN  /\ id \notin Ids(shops)
                          => r.response = Response("add_product", "not_found") /\ same
                    /\ (id \in Ids(shops) /\ OwnerOf(id) # current_user)
                          => r.response = Response("add_product", "forbidden") /\ same
                    /\ ~same => (id \in Ids(shops) /\ OwnerOf(id) = current_user)
          /\ \A id \in ProductIds, rm \in BOOLEAN, ok \in BOOLEAN :
                LET r == delete_product_result(id, rm, ok)
                    same == /\ r.products = products
                            /\ r.comments = comments
                            /\ r.files = files
                IN  /\ id \notin Ids(products)
                          => r.response = Response("delete_product", "not_found") /\ same
                    /\ (id \in Ids(products)
                            /\ OwnerOf(Get(products, id).shop_id) # current_user)
                          => r.response = Response("delete_product", "forbidden") /\ same
                    /\ ~same => (id \in Ids(products)
                                   /\ OwnerOf(Get(products, id).shop_id) = current_user))
    /\ [][/\ \A p \in (products' \ products) \cup (products \ products') :
                OwnerOf(p.shop_id) = current_user
          /\ shops \subseteq shops']_vars

\* a User is logged in, a product with a comment and a stored image sits in
\* another User's shop, and that caller's delete is answered forbidden
C3_Witness ==
    /\ current_user # Anonymous
    /\ \E p \in products :
          /\ OwnerOf(p.shop_id) # current_user
          /\ p.image \in files
          /\ \E c \in comments : c.product_id = p.id
          /\ delete_product_result(p.id, TRUE, TRUE).response
                = Response("delete_product", "forbidden")

C5_FileAndRecordTogether ==
    /\ \A n \in Names, ok \in BOOLEAN :
          LET r == create_shop_result("POST", n, "photo.png", ok)
          IN  (r.files # files) <=> (r.shops # shops)
    /\ \A id \in ShopIds, t \in Titles, d \in Descriptions, p \in Prices,
          ok \in BOOLEAN :
          LET r == add_product_result("POST", id, t, d, p, "photo.png", ok)
          IN  (r.files # files) <=> (r.products # products)

\* C7: ShopForm.validate_name raises exactly when a Shop other than the
\* form's own shop has the submitted name, so it passes a Shop's own current
\* name; and create shop with the name of a stored Shop inserts nothing, with
\* a validation error on the name field for a logged-in caller.
C7_NameSelfExclusion ==
    /\ \A n \in Names, self_shop \in {NoShop} \cup Ids(shops) :
          validate_name(n, shops, self_shop)
              <=> \E s \in shops : s.name = n /\ s.id # self_shop
    /\ \A n \in Names, i \in Images, ok \in BOOLEAN :
          (\E s \in shops : s.name = n) =>
              LET r == create_shop_result("POST", n, i, ok)
              IN  /\ r.shops = shops
                  /\ r.response.outcome # "created"
                  /\ current_user # Anonymous =>
                        /\ r.response.outcome = "validation_error"
                        /\ "name" \in r.response.errors

\* two Shops are stored and a logged-in caller's create shop with the name of
\* one of them is turned down on the name field, while that name passes the
\* validation of a form for that very shop
C7_Witness ==
    /\ current_user # Anonymous
    /\ Cardinality(shops) = 2
    /\ \E s \in shops :
          /\ create_shop_result("POST", s.name, "none", TRUE)
                = [response |-> Invalid("create_shop", {"name"}),
                   shops |-> shops, files |-> files]
          /\ ~validate_name(s.name, shops, s.id)

\* C8: a comment posted to a product id that is not stored is answered not
\* found and creates no Comment, whoever the caller and whatever the text.
C8_MissingProductNotFound ==
    \A id \in ProductIds, t \in Texts, ok \in BOOLEAN :
        id \notin Ids(products) =>
            product_result("POST", id, t, ok)
                = [response |-> Response("product", "not_found"),
                   comments |-> comments]

\* nobody is logged in, a Product is stored, and a well-formed comment posted
\* to another id is answered not found
C8_Witness ==
    /\ current_user = Anonymous
    /\ products # {}
    /\ \E id \in ProductIds :
          /\ id \notin Ids(products)
          /\ product_result("POST", id, "a long enough comment", TRUE).response
                = Response("product", "not_found")

\* the add product requests of the shop's owner, which reach the form
OwnerRequest(shop_id) ==
    current_user # Anonymous /\ shop_id \in Ids(shops) /\ OwnerOf(shop_id) = current_user

\* C9 as stated: the owner's add product with a price of 0.01 or less is
\* turned down on the price field and inserts nothing, and no stored Product
\* has a price of 0.01 or less.
C9_PriceAbovePointZeroOne ==
    /\ \A id \in ShopIds, t \in Titles, d \in Descriptions, p \in Prices,
          i \in Images, ok \in BOOLEAN :
          (OwnerRequest(id) /\ p <= PRICE_MIN) =>
              LET r == add_product_result("POST", id, t, d, p, i, ok)
              IN  /\ r.response.outcome = "validation_error"
                  /\ "price" \in r.response.errors
                  /\ r.products = products
    /\ \A p \in products : p.price > PRICE_MIN

\* C9 amended: an add product request with a price below 0.01 (zero and
\* negative prices included) inserts nothing, and is turned down on the price
\* field when it comes from the shop's owner; the owner's request with a price
\* of exactly 0.01 and an otherwise valid form is accepted; no stored Product
\* has a price below 0.01.
C9_PriceAtLeastPointZeroOne ==
    /\ \A id \in ShopIds, t \in Titles, d \in Descriptions, p \in Prices,
          i \in Images, ok \in BOOLEAN :
          LET r == add_product_result("POST", id, t, d, p, i, ok)
          IN  /\ p < PRICE_MIN =>
                    /\ r.products = products
                    /\ OwnerRequest(id) =>
                          /\ r.response.outcome = "validation_error"
                          /\ "price" \in r.response.errors
              /\ ( /\ p = PRICE_MIN
                   /\ OwnerRequest(id)
                   /\ ProductFormErrors(t, d, p, i) \ {"price"} = {}
                   /\ ok ) => r.response = Response("add_product", "added")
    /\ \A p \in products : p.price >= PRICE_MIN

\* a Product with a price of exactly 0.01 is stored
C9_Witness == \E p \in products : p.price = PRICE_MIN

\* C6: under every interleaving of register, edit profile and create shop
\* requests no two Users have the same email and no two Shops the same name;
\* a request whose value another request committed first fails at its own
\* commit and leaves Users and Shops as they were committed.
C6_UniqueUnderRaces ==
    /\ UniqueEmails(users)
    /\ UniqueNames(shops)
    /\ \A r \in Requests, ok \in BOOLEAN :
          reqs[r].pc = "added" =>
              /\ (reqs[r].op = "register" /\ Held(reqs[r].value)) =>
                    register_commit_result(r, ok)
                        = [outcome |-> "persistence_failure", users |-> users]
              /\ ( /\ reqs[r].op = "edit_account"
                   /\ \E u \in users : u.id # reqs[r].caller /\ u.email = reqs[r].value ) =>
                    edit_account_commit_result(r, ok)
                        = [outcome |-> "server_error", users |-> users]
              /\ ( /\ reqs[r].op = "create_shop"
                   /\ \E t \in shops : t.name = reqs[r].value ) =>
                    create_shop_commit_result(r, ok)
                        = [outcome |-> "server_error", shops |-> shops]

\* a registration has passed both of its reads and is about to commit the
\* email of the only User, which another request registered meanwhile
C6_Witness ==
    /\ \E r \in Requests :
          reqs[r].pc = "added" /\ reqs[r].op = "register" /\ Held(reqs[r].value)
    /\ \E q \in Requests : reqs[q].outcome = "registered"
    /\ Cardinality(users) = 1

====
